---- MODULE Spec2Model ----
(***************************************************************************)
(* Verification model of the sns-auto-backend services.                    *)
(*                                                                         *)
(*  - X analytics aggregation (app/services/x_api_service.py and the       *)
(*    GET /analytics/x/analyze endpoint of app/api/v1/analytics.py)        *)
(*  - persisted entities (app/api/v1/storage.py, live_plan.py, shorts.py)  *)
(*  - WebSocket connection manager and schedule polling task               *)
(*    (app/api/v1/websocket.py)                                            *)
(*                                                                         *)
(* Time is counted in ticks of half a second since 2026-01-01T00:00:00Z,   *)
(* so that the sub-second part of datetime.utcnow() and its truncation by  *)
(* strftime("%Y-%m-%dT%H:%M:%SZ") are both representable.                  *)
(***************************************************************************)
EXTENDS Integers, Sequences, FiniteSets, TLC

VARIABLES
    x_timeline,             \* tweets of the configured account on X, oldest first
    user_id,                \* XAPIService.user_id
    followers_cache,        \* XAPIService.followers_count_cache and its _time
    x_call,                 \* the last GET /analytics/x/analyze request
    x_response,             \* and the HTTP response it produced
    storage_files,          \* table storage_files
    scheduled_posts,        \* table scheduled_posts
    shorts_scripts,         \* table shorts_scripts
    live_plans,             \* table live_plans
    storage_dir,            \* files under StorageService.storage_dir
    store_response,         \* the response to the last storage, shorts or live-plan request
    websocket_state,        \* each client WebSocket: new, open, broken or closed
    active_connections,     \* ConnectionManager.active_connections
    last_schedule_hash,     \* ConnectionManager.last_schedule_hash
    handler_broadcast,      \* the broadcast awaited by a calendar request handler
    calendar,               \* the events of the Google calendar
    tasks,                  \* the check_schedule_changes tasks created so far
    _schedule_check_task,   \* the module global: the latest task, or NoTask
    stopping,               \* callers of stop_schedule_check_task awaiting a task
    auto_post_exchange,     \* the last POST /auto-post/generate and its response
    metadata_exchange,      \* the last POST /metadata/generate and its response
    service_exchange,       \* the last direct call of a generator service and its result
    calendar_exchange       \* the last /google-calendar/events request and its response

xvars == <<x_timeline, user_id, followers_cache, x_call, x_response>>
svars == <<storage_files, scheduled_posts, shorts_scripts, live_plans,
           storage_dir, store_response>>
tables == <<storage_files, scheduled_posts, shorts_scripts, live_plans>>
wvars == <<websocket_state, active_connections, last_schedule_hash, handler_broadcast,
           calendar, tasks, _schedule_check_task, stopping>>
gvars == <<auto_post_exchange, metadata_exchange, service_exchange>>
vars == <<xvars, svars, wvars, gvars, calendar_exchange>>

\* What a request to one router leaves alone: the state of the others.
not_x == <<svars, wvars, gvars, calendar_exchange>>
not_store == <<xvars, wvars, gvars, calendar_exchange>>
not_ws == <<xvars, svars, gvars>>
not_generators == <<xvars, svars, wvars, calendar_exchange>>

None == "None"
NoCreatedAt == -1           \* tweet.created_at is None

\* ---------------------------------------------------------------- bounds
MaxTweets == 1      \* tweets the account posts after the initial state

\* ------------------------------------------------------------- constants
TicksPerSecond == 2
JSTOffsetHours == 9
max_results == 100
FollowersCacheSeconds == 300
MinRetryAfter == 60
TopHashtags == 10

Minute == 60 * TicksPerSecond
Hour == 60 * Minute
Day == 24 * Hour

\* The instant around which the requests of the model are made:
\* 2026-02-10 03:00:00 UTC = 12:00:00 JST.
Base == 40 * Day + 3 * Hour

Periods == {"2hours", "1day", "1week", "1month"}

\* ------------------------------------------------------------- helpers
Max(a, b) == IF a >= b THEN a ELSE b
Min(a, b) == IF a <= b THEN a ELSE b

\* Sum of a sequence of integers (halving keeps the recursion shallow).
RECURSIVE SumRange(_, _, _)
SumRange(s, lo, hi) ==
    IF lo > hi THEN 0
    ELSE IF lo = hi THEN s[lo]
    ELSE LET h == (lo + hi) \div 2
         IN  SumRange(s, lo, h) + SumRange(s, h + 1, hi)

\* A sequence given as a function, as a tuple of its values.
Tuple(s) == s \o <<>>

SeqSum(s) == LET t == Tuple(s) IN SumRange(t, 1, Len(t))

Reverse(s) == [i \in 1..Len(s) |-> s[Len(s) + 1 - i]]

\* Python's int(a / b) for b > 0: truncation toward zero.
PyIntDiv(a, b) == IF a >= 0 THEN a \div b ELSE -((-a) \div b)

\* ---------------------------------------------------- time range, labels
\* _get_time_range: the start of the period, with the sub-second part of now.
PeriodDelta(period) ==
    IF period = "2hours" THEN 2 * Hour
    ELSE IF period = "1day" THEN Day
    ELSE IF period = "1week" THEN 7 * Day
    ELSE IF period = "1month" THEN 30 * Day
    ELSE Day

_get_time_range(period, now) == [start |-> now - PeriodDelta(period), end |-> now]

\* A bucket width of one hour for every period but 2hours.
bucket_minutes_hourly(period) ==
    IF period = "2hours" THEN 10 ELSE 60

bucket_minutes(period) ==
    IF period = "2hours" THEN 10
    ELSE IF period = "1day" THEN 60
    ELSE IF period = "1week" THEN 60 * 24
    ELSE 60 * 24

data_points(period) ==
    IF period = "2hours" THEN 12
    ELSE IF period = "1day" THEN 24
    ELSE IF period = "1week" THEN 7
    ELSE 30

\* strftime("%Y-%m-%dT%H:%M:%SZ") keeps whole seconds only.
StrftimeSeconds(t) == t - (t % TicksPerSecond)

\* Days from 1970-01-01 to the origin of the model's time, 2026-01-01.
EpochDays == 20000 + 454

\* Calendar date (month, day) of a day number counted from 1970-01-01.
CivilFromDays(days) ==
    LET z == days + 719468
        era == z \div 146097
        doe == z - era * 146097
        yoe == (doe - doe \div 1460 + doe \div 36524 - doe \div 146096) \div 365
        doy == doe - (365 * yoe + yoe \div 4 - yoe \div 100)
        mp == (5 * doy + 2) \div 153
        d == doy - (153 * mp + 2) \div 5 + 1
        m == IF mp < 10 THEN mp + 3 ELSE mp - 9
    IN  [month |-> m, day |-> d]

\* time_point.strftime(fmt) of a JST datetime, fmt "%H:%M" or "%m/%d".
Strftime(fmt, t) ==
    LET local == (t \div TicksPerSecond) + JSTOffsetHours * 3600
        sod == local % 86400
    IN  IF fmt = "%H:%M"
        THEN [fmt |-> fmt, a |-> sod \div 3600, b |-> (sod % 3600) \div 60]
        ELSE LET c == CivilFromDays(EpochDays + local \div 86400)
             IN  [fmt |-> fmt, a |-> c.month, b |-> c.day]

LabelFormat(period) == IF period \in {"2hours", "1day"} THEN "%H:%M" ELSE "%m/%d"

_generate_time_labels(period, count, start_time) ==
    [i \in 1..count |->
        Strftime(LabelFormat(period), start_time + bucket_minutes(period) * Minute * (i - 1))]

\* ------------------------------------------------------------ X API side
\* A tweet as tweepy returns it with tweet_fields public_metrics, created_at,
\* entities, referenced_tweets.
Metrics(l, rt, rp, im) ==
    [like_count |-> l, retweet_count |-> rt, reply_count |-> rp, impression_count |-> im]

Tweet(id, t, m, refs, tags) ==
    [id |-> id, created_at |-> t, public_metrics |-> m,
     referenced_tweets |-> refs, hashtags |-> tags]

\* The tweet shapes the account posts.
TweetTemplates == {
    [m |-> Metrics(2, 20, 200, 2000), refs |-> <<"quoted">>, tags |-> <<"ai">>],
    [m |-> Metrics(4, 40, 400, 4000), refs |-> <<"retweeted">>, tags |-> <<"ai+VS16", "vtuber">>] }

\* The posting times of the model: the start of each period as seen from a
\* request at Base, and one second before Base.  X reports created_at in
\* whole seconds.
TweetTimes == { Base - 30 * Day, Base - Day, Base - 2 * Hour, Base - TicksPerSecond }

\* An account that posted max_results tweets, one per second, from one hour
\* before Base.
BurstStart == Base - Hour
BurstTemplate == [m |-> Metrics(1, 10, 100, 1000), refs |-> <<>>, tags |-> <<>>]
Burst ==
    [i \in 1..max_results |->
        Tweet(i, BurstStart + (i - 1) * TicksPerSecond,
              BurstTemplate.m, BurstTemplate.refs, BurstTemplate.tags)]

LastCreatedAt(timeline) ==
    IF timeline = <<>> THEN 0 ELSE timeline[Len(timeline)].created_at

\* client.get_users_tweets(id, start_time, end_time, max_results=100, ...):
\* one page of the account's tweets with start_time <= created_at < end_time,
\* newest first, at most max_results of them.
get_users_tweets(timeline, start_time, end_time, limit) ==
    LET inrange == SelectSeq(timeline,
                       LAMBDA tw : tw.created_at >= start_time /\ tw.created_at < end_time)
        newest == Reverse(inrange)
    IN  SubSeq(newest, 1, Min(Len(newest), limit))

\* --------------------------------------------------------- aggregation
\* for ref in tweet.referenced_tweets: if ref.type == "retweeted"
is_retweet_of_other(tw) ==
    \E i \in 1..Len(tw.referenced_tweets) : tw.referenced_tweets[i] = "retweeted"

\* The tweets the loop of get_analytics processes (created_at None: continue).
Processed(tweets) == SelectSeq(tweets, LAMBDA tw : tw.created_at # NoCreatedAt)

\* Counting the cumulative retweets of every original tweet, old or new.
CountsRetweets_any_age(tw, start_jst) == ~is_retweet_of_other(tw)

\* Only count retweets if the tweet was created within the period and is
\* not a retweet of another user's tweet.
CountsRetweets(tw, start_jst) ==
    tw.created_at >= start_jst /\ ~is_retweet_of_other(tw)

total_retweets(tweets, start_jst) ==
    LET p == Processed(tweets)
    IN  SeqSum([i \in 1..Len(p) |->
            IF CountsRetweets(p[i], start_jst)
            THEN p[i].public_metrics.retweet_count ELSE 0])

total_likes(tweets) ==
    LET p == Processed(tweets)
    IN  SeqSum([i \in 1..Len(p) |-> p[i].public_metrics.like_count])

total_replies(tweets) ==
    LET p == Processed(tweets)
    IN  SeqSum([i \in 1..Len(p) |-> p[i].public_metrics.reply_count])

total_impressions(tweets) ==
    LET p == Processed(tweets)
    IN  SeqSum([i \in 1..Len(p) |-> p[i].public_metrics.impression_count])

\* bucket_index = int(time_diff / (bucket_minutes * 60))
bucket_index(created_at, start_time, period) ==
    PyIntDiv(created_at - start_time, bucket_minutes(period) * Minute)

\* The bucket a creation time is added to: its bucket_index when
\* 0 <= bucket_index < data_points, no bucket (-1) otherwise.
BucketOf(created_at, start_time, period, count) ==
    LET b == bucket_index(created_at, start_time, period)
    IN  IF 0 <= b /\ b < count THEN b ELSE -1

_calculate_engagement_trend(tweets, period, time_labels, start_time) ==
    LET n == Len(time_labels)
        p == Processed(tweets)
        b == Tuple([k \in 1..Len(p) |-> BucketOf(p[k].created_at, start_time, period, n)])
        used == {b[k] : k \in 1..Len(p)}
        eng == Tuple([k \in 1..Len(p) |->
                   p[k].public_metrics.like_count + p[k].public_metrics.retweet_count
                   + p[k].public_metrics.reply_count])
    IN  [i \in 1..n |->
            [time |-> time_labels[i],
             engagement |->
                 IF (i - 1) \notin used THEN 0
                 ELSE SeqSum([k \in 1..Len(p) |-> IF b[k] = i - 1 THEN eng[k] ELSE 0]),
             impressions |->
                 IF (i - 1) \notin used THEN 0
                 ELSE SeqSum([k \in 1..Len(p) |->
                          IF b[k] = i - 1 THEN p[k].public_metrics.impression_count ELSE 0])]]

\* ------------------------------------------------------------- hashtags
\* _normalize_hashtag: NFC, then drop the characters of category M* (the
\* variation selector of "ai+VS16"), then strip.
_normalize_hashtag(tag) == IF tag = "ai+VS16" THEN "ai" ELSE tag

\* One entry per hashtag of each processed tweet, in processing order.
RECURSIVE TagEntries(_)
TagEntries(p) ==
    IF p = <<>> THEN <<>>
    ELSE IF Len(p) = 1
    THEN [k \in 1..Len(p[1].hashtags) |->
             [norm |-> _normalize_hashtag(p[1].hashtags[k]),
              orig |-> p[1].hashtags[k],
              created_at |-> p[1].created_at,
              likes |-> p[1].public_metrics.like_count]]
    ELSE LET h == Len(p) \div 2
         IN  TagEntries(SubSeq(p, 1, h)) \o TagEntries(SubSeq(p, h + 1, Len(p)))

\* Keys of a dict in insertion order.
InsertionOrder(keys) ==
    LET firsts == SelectSeq([i \in 1..Len(keys) |-> i],
                      LAMBDA i : \A j \in 1..(i - 1) : keys[j] # keys[i])
    IN  [k \in 1..Len(firsts) |-> keys[firsts[k]]]

hashtag_stats(entries, norm) ==
    SeqSum([i \in 1..Len(entries) |-> IF entries[i].norm = norm THEN entries[i].likes ELSE 0])

hashtag_timeline(entries, norm) == SelectSeq(entries, LAMBDA e : e.norm = norm)

hashtag_display_names(entries, norm) ==
    LET first == CHOOSE i \in 1..Len(entries) :
                     /\ entries[i].norm = norm
                     /\ \A j \in 1..(i - 1) : entries[j].norm # norm
    IN  entries[first].orig

\* sorted(items, key=likes, reverse=True): stable, descending.
RECURSIVE SortedByLikes(_, _)
SortedByLikes(order, entries) ==
    IF order = <<>> THEN <<>>
    ELSE LET front == SortedByLikes(SubSeq(order, 1, Len(order) - 1), entries)
             x == order[Len(order)]
             kx == hashtag_stats(entries, x)
             pos == Cardinality({i \in 1..Len(front) : hashtag_stats(entries, front[i]) >= kx})
         IN  SubSeq(front, 1, pos) \o <<x>> \o SubSeq(front, pos + 1, Len(front))

_build_hashtag_timeline(timeline_data, time_labels, period, start_time) ==
    LET n == Len(time_labels)
        b == Tuple([k \in 1..Len(timeline_data) |->
                 BucketOf(timeline_data[k].created_at, start_time, period, n)])
        used == {b[k] : k \in 1..Len(timeline_data)}
    IN  [i \in 1..n |->
            [time |-> time_labels[i],
             likes |->
                 IF (i - 1) \notin used THEN 0
                 ELSE SeqSum([k \in 1..Len(timeline_data) |->
                          IF b[k] = i - 1 THEN timeline_data[k].likes ELSE 0])]]

NoDataTag == "no_data"

build_hashtag_analysis(tweets, time_labels, period, start_jst) ==
    LET entries == TagEntries(Processed(tweets))
        order == InsertionOrder([i \in 1..Len(entries) |-> entries[i].norm])
        sorted == SortedByLikes(order, entries)
        top == SubSeq(sorted, 1, Min(Len(sorted), TopHashtags))
        display(i) == hashtag_display_names(entries, top[i])
        kept == SelectSeq([i \in 1..Len(top) |-> i],
                    LAMBDA i : \A j \in 1..(i - 1) : display(j) # display(i))
        analysis == [k \in 1..Len(kept) |->
                        [tag |-> display(kept[k]),
                         likes |-> hashtag_stats(entries, top[kept[k]]),
                         data |-> _build_hashtag_timeline(
                                      hashtag_timeline(entries, top[kept[k]]),
                                      time_labels, period, start_jst)]]
    IN  IF analysis = <<>>
        THEN << [tag |-> NoDataTag, likes |-> 0,
                 data |-> [i \in 1..Len(time_labels) |-> [time |-> time_labels[i], likes |-> 0]]] >>
        ELSE analysis

\* ------------------------------------------------- the X API's answers
\* What the three X API calls of one request do.  e is the TooManyRequests
\* error a rate limited call raises: its response object may be missing,
\* may lack headers, and its x-rate-limit-reset header may be missing, may
\* not be a number, or is a time in epoch seconds.
BaseSeconds == Base \div TicksPerSecond

Header(kind, value) == [kind |-> kind, value |-> value]

ResetHeaders == { Header("absent", 0), Header("text", 0),
                  Header("int", BaseSeconds - 30), Header("int", BaseSeconds + 900) }

RateLimitErrors ==
    { [response |-> "None", reset |-> Header("absent", 0)],
      [response |-> "no_headers", reset |-> Header("absent", 0)] }
    \cup { [response |-> "response", reset |-> h] : h \in ResetHeaders }

NoError == [response |-> "None", reset |-> Header("absent", 0)]

FollowersOnX == 7

Api(user, tweets, followers, e) ==
    [user |-> user, tweets |-> tweets, followers |-> followers, e |-> e]

ApiScenarios ==
    { Api("ok", "ok", f, NoError) : f \in {"ok", "no_data", "rate_limit", "error"} }
    \cup { Api(u, "ok", "ok", NoError) : u \in {"not_found"} }
    \cup { Api("rate_limit", "ok", "ok", e) :
             e \in { x \in RateLimitErrors : x.reset.kind \in {"absent"} } }
    \cup { Api("ok", "rate_limit", "ok", e) : e \in RateLimitErrors }
    \cup { Api("ok", t, "ok", NoError) :
             t \in {"server_error", "unauthorized", "forbidden", "error"} }

\* The tweets of one request: self.client.get_users_tweets(...) with the
\* period's start and end formatted to whole seconds.
FetchTweets(timeline, period, now) ==
    LET r == _get_time_range(period, now)
    IN  get_users_tweets(timeline, StrftimeSeconds(r.start), StrftimeSeconds(r.end),
                         max_results)

\* ------------------------------------------------ XAPIService.get_analytics
\* The outcome of get_analytics: the exception it raises or the data it
\* returns, and the service's caches afterwards.
Raised(exc, e, uid, cache) ==
    [raised |-> exc, e |-> e, user_id |-> uid, followers_cache |-> cache]

NoCache == [count |-> 0, time |-> NoCreatedAt]

cache_valid(cache, now) ==
    cache # NoCache /\ (now - cache.time) < FollowersCacheSeconds * TicksPerSecond

get_analytics(period, now, api, timeline, uid, cache) ==
    IF uid = None /\ api.user = "rate_limit" THEN Raised("TooManyRequests", api.e, uid, cache)
    ELSE IF uid = None /\ api.user = "not_found" THEN Raised("ValueError", NoError, uid, cache)
    ELSE IF api.tweets = "rate_limit" THEN Raised("TooManyRequests", api.e, "uid", cache)
    ELSE IF api.tweets = "server_error" THEN Raised("TwitterServerError", NoError, "uid", cache)
    ELSE IF api.tweets = "unauthorized" THEN Raised("Unauthorized", NoError, "uid", cache)
    ELSE IF api.tweets = "forbidden" THEN Raised("Forbidden", NoError, "uid", cache)
    ELSE IF api.tweets = "error" THEN Raised("Exception", NoError, "uid", cache)
    ELSE
    LET r == _get_time_range(period, now)
        start_jst == r.start
        tweets == FetchTweets(timeline, period, now)
        fetched == ~cache_valid(cache, now) /\ api.followers \in {"ok", "no_data"}
        followers_count ==
            IF cache_valid(cache, now) THEN cache.count
            ELSE IF api.followers = "ok" THEN FollowersOnX
            ELSE IF api.followers = "no_data" THEN 0
            ELSE IF cache # NoCache THEN cache.count
            ELSE 0
        time_labels == _generate_time_labels(period, data_points(period), start_jst)
        message == IF period = "2hours" /\ Len(tweets) = 0
                   THEN <<Strftime("%H:%M", start_jst), Strftime("%H:%M", r.end)>>
                   ELSE <<>>
    IN  [raised |-> None, e |-> NoError,
         data |-> [likes_count |-> total_likes(tweets),
                   retweets_count |-> total_retweets(tweets, start_jst),
                   replies_count |-> total_replies(tweets),
                   impressions_count |-> total_impressions(tweets),
                   followers_count |-> followers_count,
                   engagement_trend |->
                       _calculate_engagement_trend(tweets, period, time_labels, start_jst),
                   hashtag_analysis |->
                       build_hashtag_analysis(tweets, time_labels, period, start_jst),
                   message |-> message],
         user_id |-> "uid",
         followers_cache |-> IF fetched THEN [count |-> followers_count, time |-> now]
                             ELSE cache]

\* ------------------------------------------- GET /analytics/x/analyze
\* The except tweepy.TooManyRequests clause of analyze_x_data.  retry_after
\* is assigned only inside "if e.response is not None"; when the error has
\* no response the logging line that reads it raises UnboundLocalError,
\* which leaves the handler and is answered with a plain 500.
retry_after(e, now) ==
    LET current_time == now \div TicksPerSecond
    IN  IF e.reset.kind = "int" THEN Max(e.reset.value - current_time, MinRetryAfter)
        ELSE MinRetryAfter

rate_limit_response(e, now) ==
    IF e.response = "None"
    THEN [status |-> 500, detail |-> "Internal Server Error", retry_after_seconds |-> 0]
    ELSE [status |-> 429, detail |-> "rate_limit",
          retry_after_seconds |-> retry_after(
              IF e.response = "no_headers" THEN NoError ELSE e, now)]

ErrorResponse(status, detail, retry) ==
    [status |-> status, detail |-> detail, retry_after_seconds |-> retry]

analyze_x_data(result, now) ==
    IF result.raised = None
    THEN [status |-> 200, detail |-> "ok", retry_after_seconds |-> 0, data |-> result.data]
    ELSE IF result.raised = "TooManyRequests" THEN rate_limit_response(result.e, now)
    ELSE IF result.raised = "TwitterServerError" THEN ErrorResponse(503, "server_error", 30)
    ELSE IF result.raised = "Unauthorized" THEN ErrorResponse(401, "unauthorized", 0)
    ELSE IF result.raised = "Forbidden" THEN ErrorResponse(403, "forbidden", 0)
    ELSE ErrorResponse(500, "failed", 0)

\* ------------------------------------------------------ X: state machine
NowChoices == {Base, Base + 1}

NoCall == [period |-> None, now |-> 0, api |-> Api("ok", "ok", "ok", NoError), account |-> 0]
NoResponse == ErrorResponse(0, "none", 0)

XInit ==
    /\ x_timeline \in {<<>>, Burst}
    /\ user_id = None
    /\ followers_cache = NoCache
    /\ x_call = NoCall
    /\ x_response = NoResponse

\* The number of tweets posted since the initial state.
Posted(timeline) ==
    IF Len(timeline) >= max_results /\ timeline[1] = Burst[1]
    THEN Len(timeline) - max_results ELSE Len(timeline)

\* The account posts a tweet (X's side; times are chronological).
XPostTweet(t, tpl) ==
    /\ Posted(x_timeline) < MaxTweets
    /\ t >= LastCreatedAt(x_timeline)
    /\ x_timeline' = Append(x_timeline,
           Tweet(Len(x_timeline) + 1, t, tpl.m, tpl.refs, tpl.tags))
    /\ UNCHANGED <<user_id, followers_cache, x_call, x_response, not_x>>

\* One GET /analytics/x/analyze request, from the query to the response.
AnalyzeX(period, now, api) ==
    LET result == get_analytics(period, now, api, x_timeline, user_id, followers_cache)
    IN  /\ user_id' = result.user_id
        /\ followers_cache' = result.followers_cache
        /\ x_call' = [period |-> period, now |-> now, api |-> api,
                      account |-> Len(x_timeline)]
        /\ x_response' = analyze_x_data(result, now)
        /\ UNCHANGED <<x_timeline, not_x>>

XRequests ==
    { <<p, n, Api("ok", "ok", "ok", NoError)>> : p \in Periods, n \in NowChoices }
    \cup { <<"1day", Base, a>> : a \in ApiScenarios }

XNext ==
    \/ \E t \in TweetTimes, tpl \in TweetTemplates : XPostTweet(t, tpl)
    \/ \E q \in XRequests : AnalyzeX(q[1], q[2], q[3])

\* ======================================================= storage database
\* The four tables (app/models) are sets of rows.
\* Bound: the rows of all tables together, and the files in the directory.
MaxRecords == 2

\* str(uuid.uuid4()): any value of the id space; two draws may coincide.
Ids == {"id1", "id2"}
\* str(uuid.uuid4())[:8], appended by save_file when the path exists.
Suffixes == {"s1"}
ReportTypes == {"youtube_analytics", "x_analytics"}
\* datetime.now() of a request, to the millisecond the file name keeps.
Timestamps == {"t1"}
Contents == {"c1"}
Datetimes == {"d1"}
\* image_path is None; a path otherwise
NoPath == [report_type |-> None, timestamp |-> None, suffix |-> ""]
\* the relative path save_file returned for a composite image (X投稿登録簿/...)
ImagePath == [report_type |-> "scheduled_post", timestamp |-> "t0", suffix |-> ""]
\* image_base64 of a request: absent, empty, the base64 of an image, or text
\* whose padding base64.b64decode rejects.
decodes(image_base64) == image_base64 # "bad_padding"
Themes == {"theme1"}
Titles == {"title1"}

RecordCount ==
    Cardinality(storage_files) + Cardinality(scheduled_posts)
    + Cardinality(shorts_scripts) + Cardinality(live_plans)

\* db.query(Model).filter(Model.id == id).first()
Has(table, id) == \E r \in table : r.id = id
first_unfiltered(table, id) == CHOOSE r \in table : TRUE
First(table, id) == CHOOSE r \in table : r.id = id

\* id = Column(String, primary_key=True): INSERT of a row whose id is in the
\* table fails with IntegrityError.
primary_key_unchecked(table, id) == TRUE

primary_key(table, id) == ~Has(table, id)

\* file_path = Column(String, unique=True)
unique_file_path(table, path) == \A r \in table : r.file_path # path

\* The response of a handler: status, the id of a create, the rows of a read.
StoreResponse(op, status, id, rows) ==
    [op |-> op, status |-> status, id |-> id, rows |-> rows]

\* StorageService.generate_report_filename and save_file: the name made of
\* the report type and the timestamp, with a uuid suffix when that path is
\* already in the directory (the suffixed path is opened 'wb' as it is).
generate_report_filename(report_type, timestamp) ==
    [report_type |-> report_type, timestamp |-> timestamp, suffix |-> ""]

save_file(dir, filename, unique_id) ==
    IF filename \in dir THEN [filename EXCEPT !.suffix = unique_id] ELSE filename

\* StorageService.delete_file: unlink when the file exists.
delete_file_from(dir, path) == dir \ {path}

\* ------------------------------------------------- POST /storage/reports
save_report(report_type, timestamp, file_id, unique_id, outcome) ==
    LET file_path == save_file(storage_dir,
                         generate_report_filename(report_type, timestamp), unique_id)
        storage_file == [id |-> file_id, report_type |-> report_type,
                         file_path |-> file_path]
        committed == /\ outcome = "ok"
                     /\ primary_key(storage_files, file_id)
                     /\ unique_file_path(storage_files, file_path)
    IN  /\ RecordCount < MaxRecords
        /\ Cardinality(storage_dir) < MaxRecords
        /\ storage_dir' = IF outcome = "excel_error" THEN storage_dir
                          ELSE storage_dir \cup {file_path}
        /\ storage_files' = IF committed THEN storage_files \cup {storage_file}
                            ELSE storage_files
        /\ store_response' = IF committed
                             THEN StoreResponse("save_report", 201, file_id, {})
                             ELSE StoreResponse("save_report", 500, None, {})
        /\ UNCHANGED <<scheduled_posts, shorts_scripts, live_plans, not_store>>

\* --------------------------------------------------- GET /storage/files
list_files ==
    /\ store_response' = StoreResponse("list_files", 200, None, storage_files)
    /\ UNCHANGED <<tables, storage_dir, not_store>>

\* ------------------------------------------ DELETE /storage/files/{id}
delete_file(file_id, commit_ok) ==
    IF ~Has(storage_files, file_id)
    THEN /\ store_response' = StoreResponse("delete_file", 404, None, {})
         /\ UNCHANGED <<tables, storage_dir, not_store>>
    ELSE LET storage_file == First(storage_files, file_id)
         IN  /\ storage_dir' = delete_file_from(storage_dir, storage_file.file_path)
             /\ storage_files' = IF commit_ok THEN storage_files \ {storage_file}
                                 ELSE storage_files
             /\ store_response' = StoreResponse("delete_file",
                                      IF commit_ok THEN 200 ELSE 500, None, {})
             /\ UNCHANGED <<scheduled_posts, shorts_scripts, live_plans, not_store>>

\* ------------------------------------------ POST /storage/scheduled-posts
\* With an image the handler evaluates
\* storage_service.generate_scheduled_post_filename(timestamp), a method
\* StorageService does not have: AttributeError inside the image block, which
\* answers 400 before anything is written.
save_scheduled_post(content, scheduled_datetime, image_base64, post_id, commit_ok) ==
    LET scheduled_post == [id |-> post_id, content |-> content, image_path |-> NoPath,
                           scheduled_datetime |-> scheduled_datetime,
                           status |-> "pending"]
        committed == commit_ok /\ primary_key(scheduled_posts, post_id)
    IN  /\ RecordCount < MaxRecords
        /\ scheduled_posts' = IF image_base64 = None /\ committed
                              THEN scheduled_posts \cup {scheduled_post}
                              ELSE scheduled_posts
        /\ store_response' =
               IF image_base64 # None
               THEN StoreResponse("save_scheduled_post", 400, None, {})
               ELSE IF committed
               THEN StoreResponse("save_scheduled_post", 201, post_id, {})
               ELSE StoreResponse("save_scheduled_post", 500, None, {})
        /\ UNCHANGED <<storage_files, shorts_scripts, live_plans, storage_dir, not_store>>

\* ------------------------------------------- GET /storage/scheduled-posts
list_scheduled_posts ==
    /\ store_response' = StoreResponse("list_scheduled_posts", 200, None, scheduled_posts)
    /\ UNCHANGED <<tables, storage_dir, not_store>>

\* -------------------------------------- PUT /storage/scheduled-posts/{id}
\* The fields of the request that are not None replace the row's; an empty
\* image_base64 removes the image; a new image that decodes deletes the old
\* file and then fails as in save_scheduled_post (400, nothing committed).
UpdateRequest(content, scheduled_datetime, status, image_base64) ==
    [content |-> content, scheduled_datetime |-> scheduled_datetime,
     status |-> status, image_base64 |-> image_base64]

UpdateRequests ==
    { UpdateRequest(None, None, None, i) : i \in {None, "", "img", "bad_padding"} }
    \cup { UpdateRequest("c2", None, None, None),
           UpdateRequest("c2", "d2", "posted", None),
           UpdateRequest("c2", None, None, "img") }

update_scheduled_post(post_id, request, commit_ok) ==
    IF ~Has(scheduled_posts, post_id)
    THEN /\ store_response' = StoreResponse("update_scheduled_post", 404, None, {})
         /\ UNCHANGED <<tables, storage_dir, not_store>>
    ELSE LET scheduled_post == First(scheduled_posts, post_id)
             updated ==
                 [id |-> scheduled_post.id,
                  content |-> IF request.content # None THEN request.content
                              ELSE scheduled_post.content,
                  scheduled_datetime |->
                      IF request.scheduled_datetime # None THEN request.scheduled_datetime
                      ELSE scheduled_post.scheduled_datetime,
                  status |-> IF request.status # None THEN request.status
                             ELSE scheduled_post.status,
                  image_path |-> IF request.image_base64 = "" THEN NoPath
                                 ELSE scheduled_post.image_path]
             image_failed == request.image_base64 \notin {None, ""}
             committed == ~image_failed /\ commit_ok
         IN  /\ storage_dir' =
                    IF /\ request.image_base64 # None
                       /\ decodes(request.image_base64)
                       /\ scheduled_post.image_path # NoPath
                    THEN delete_file_from(storage_dir, scheduled_post.image_path)
                    ELSE storage_dir
             /\ scheduled_posts' =
                    IF committed THEN (scheduled_posts \ {scheduled_post}) \cup {updated}
                    ELSE scheduled_posts
             /\ store_response' =
                    IF image_failed
                    THEN StoreResponse("update_scheduled_post", 400, None, {})
                    ELSE IF committed
                    THEN StoreResponse("update_scheduled_post", 200, post_id, {updated})
                    ELSE StoreResponse("update_scheduled_post", 500, None, {})
             /\ UNCHANGED <<storage_files, shorts_scripts, live_plans, not_store>>

\* ----------------------------------- DELETE /storage/scheduled-posts/{id}
delete_scheduled_post(post_id, commit_ok) ==
    IF ~Has(scheduled_posts, post_id)
    THEN /\ store_response' = StoreResponse("delete_scheduled_post", 404, None, {})
         /\ UNCHANGED <<tables, storage_dir, not_store>>
    ELSE LET scheduled_post == First(scheduled_posts, post_id)
         IN  /\ storage_dir' =
                    IF scheduled_post.image_path # NoPath
                    THEN delete_file_from(storage_dir, scheduled_post.image_path)
                    ELSE storage_dir
             /\ scheduled_posts' = IF commit_ok THEN scheduled_posts \ {scheduled_post}
                                   ELSE scheduled_posts
             /\ store_response' = StoreResponse("delete_scheduled_post",
                                      IF commit_ok THEN 200 ELSE 500, None, {})
             /\ UNCHANGED <<storage_files, shorts_scripts, live_plans, not_store>>

\* ------------------------------- GET /storage/scheduled-posts/{id}/image
\* 404 without the post, without an image_path, or without the file; the
\* file of the post otherwise.
get_scheduled_post_image(post_id) ==
    /\ store_response' =
           IF ~Has(scheduled_posts, post_id)
           THEN StoreResponse("get_scheduled_post_image", 404, None, {})
           ELSE LET scheduled_post == First(scheduled_posts, post_id)
                IN  IF \/ scheduled_post.image_path = NoPath
                       \/ scheduled_post.image_path \notin storage_dir
                    THEN StoreResponse("get_scheduled_post_image", 404, None, {})
                    ELSE StoreResponse("get_scheduled_post_image", 200, post_id,
                                       {scheduled_post})
    /\ UNCHANGED <<tables, storage_dir, not_store>>

\* -------------------------------------------------- POST /shorts/generate
\* ShortsGenerationService.generate_script returns a script with a uuid4 id
\* or raises; the handler stores the script's fields.
generate_shorts_script(theme, script_id, outcome) ==
    LET db_script == [id |-> script_id, theme |-> theme]
        committed == outcome = "ok" /\ primary_key(shorts_scripts, script_id)
    IN  /\ RecordCount < MaxRecords
        /\ shorts_scripts' = IF committed THEN shorts_scripts \cup {db_script}
                             ELSE shorts_scripts
        /\ store_response' = IF committed
                             THEN StoreResponse("generate_shorts_script", 201, script_id, {})
                             ELSE StoreResponse("generate_shorts_script", 500, None, {})
        /\ UNCHANGED <<storage_files, scheduled_posts, live_plans, storage_dir, not_store>>

get_shorts_scripts ==
    /\ store_response' = StoreResponse("get_shorts_scripts", 200, None, shorts_scripts)
    /\ UNCHANGED <<tables, storage_dir, not_store>>

delete_shorts_script(script_id, commit_ok) ==
    /\ shorts_scripts' =
           IF commit_ok THEN { r \in shorts_scripts : r.id # script_id } ELSE shorts_scripts
    /\ store_response' = StoreResponse("delete_shorts_script",
                             IF ~Has(shorts_scripts, script_id) THEN 404
                             ELSE IF commit_ok THEN 204 ELSE 500, None, {})
    /\ UNCHANGED <<storage_files, scheduled_posts, live_plans, storage_dir, not_store>>

\* ----------------------------------------------- POST /live-plan/generate
\* outcome: the duration check fails (400), generate_plan raises ValueError
\* (400) or another exception (500), or the commit fails (500).
generate_live_plan(title, plan_id, outcome) ==
    LET db_plan == [id |-> plan_id, title |-> title]
        committed == outcome = "ok" /\ primary_key(live_plans, plan_id)
    IN  /\ RecordCount < MaxRecords
        /\ live_plans' = IF committed THEN live_plans \cup {db_plan} ELSE live_plans
        /\ store_response' =
               IF outcome \in {"invalid_duration", "value_error"}
               THEN StoreResponse("generate_live_plan", 400, None, {})
               ELSE IF committed
               THEN StoreResponse("generate_live_plan", 201, plan_id, {})
               ELSE StoreResponse("generate_live_plan", 500, None, {})
        /\ UNCHANGED <<storage_files, scheduled_posts, shorts_scripts, storage_dir, not_store>>

get_live_plans ==
    /\ store_response' = StoreResponse("get_live_plans", 200, None, live_plans)
    /\ UNCHANGED <<tables, storage_dir, not_store>>

get_live_plan(plan_id) ==
    /\ store_response' =
           IF Has(live_plans, plan_id)
           THEN StoreResponse("get_live_plan", 200, plan_id, {First(live_plans, plan_id)})
           ELSE StoreResponse("get_live_plan", 404, None, {})
    /\ UNCHANGED <<tables, storage_dir, not_store>>

delete_live_plan(plan_id, commit_ok) ==
    /\ live_plans' =
           IF commit_ok THEN { r \in live_plans : r.id # plan_id } ELSE live_plans
    /\ store_response' = StoreResponse("delete_live_plan",
                             IF ~Has(live_plans, plan_id) THEN 404
                             ELSE IF commit_ok THEN 204 ELSE 500, None, {})
    /\ UNCHANGED <<storage_files, scheduled_posts, shorts_scripts, storage_dir, not_store>>

\* ------------------------------------------------- store: state machine
SInit ==
    /\ storage_files = {}
    /\ scheduled_posts = {}
    /\ shorts_scripts = {}
    /\ live_plans = {}
    /\ storage_dir = {}
    /\ store_response = StoreResponse("none", 0, None, {})

SNext ==
    \/ \E t \in ReportTypes, ts \in Timestamps, i \in Ids, u \in Suffixes,
          o \in {"ok", "excel_error", "commit_error"} : save_report(t, ts, i, u, o)
    \/ list_files
    \/ \E i \in Ids, ok \in BOOLEAN : delete_file(i, ok)
    \/ \E c \in Contents, d \in Datetimes, img \in {None, "img"}, i \in Ids, ok \in BOOLEAN :
          save_scheduled_post(c, d, img, i, ok)
    \/ list_scheduled_posts
    \/ \E i \in Ids, q \in UpdateRequests, ok \in BOOLEAN : update_scheduled_post(i, q, ok)
    \/ \E i \in Ids, ok \in BOOLEAN : delete_scheduled_post(i, ok)
    \/ \E i \in Ids : get_scheduled_post_image(i)
    \/ \E th \in Themes, i \in Ids, o \in {"ok", "error", "commit_error"} :
          generate_shorts_script(th, i, o)
    \/ get_shorts_scripts
    \/ \E i \in Ids, ok \in BOOLEAN : delete_shorts_script(i, ok)
    \/ \E ti \in Titles, i \in Ids,
          o \in {"ok", "invalid_duration", "value_error", "error", "commit_error"} :
          generate_live_plan(ti, i, o)
    \/ get_live_plans
    \/ \E i \in Ids : get_live_plan(i)
    \/ \E i \in Ids, ok \in BOOLEAN : delete_live_plan(i, ok)

\* A database and a storage directory that hold a scheduled post with its
\* composite image (ScheduledPost.image_path, X投稿登録簿) when the process
\* starts, and the scheduled-post handlers on them.
SStoredImage ==
    /\ storage_files = {}
    /\ scheduled_posts = {[id |-> "id1", content |-> "c1", image_path |-> ImagePath,
                           scheduled_datetime |-> "d1", status |-> "pending"]}
    /\ shorts_scripts = {}
    /\ live_plans = {}
    /\ storage_dir = {ImagePath}
    /\ store_response = StoreResponse("none", 0, None, {})

ScheduledPostNext ==
    \/ \E c \in Contents, d \in Datetimes, img \in {None, "img"}, i \in Ids, ok \in BOOLEAN :
          save_scheduled_post(c, d, img, i, ok)
    \/ list_scheduled_posts
    \/ \E i \in Ids, q \in UpdateRequests, ok \in BOOLEAN : update_scheduled_post(i, q, ok)
    \/ \E i \in Ids, ok \in BOOLEAN : delete_scheduled_post(i, ok)
    \/ \E i \in Ids : get_scheduled_post_image(i)

\* ============================================================= websocket
\* ConnectionManager, the handlers that broadcast, and the polling task of
\* app/api/v1/websocket.py.  Coroutines run on one event loop: a step is the
\* code between two awaits that suspend.

\* Bound: the check_schedule_changes tasks created by asyncio.create_task.
MaxTasks == 2

\* The WebSocket objects of the clients, callers of start/stop, and the
\* calendar: event id -> start time (NoEvent: no such event).
WebSockets == {"w1", "w2", "w3"}
Callers == {"k1", "k2"}
EventIds == {"e1", "e2"}
NoEvent == 0
StartTimes == {1, 2}

\* One run of ConnectionManager.broadcast: the set iterator of
\* "for connection in self.active_connections" (the elements it has not
\* visited and the size of the set when it was created), the connection whose
\* send_json is awaited, and the local list disconnected.
NoBroadcast ==
    [state |-> "idle", start |-> {}, pending |-> {}, size |-> 0, current |-> None,
     disconnected |-> {}, delivered |-> {}]

\* next() of the set iterator and the rest of the loop: RuntimeError("Set
\* changed size during iteration") when the size differs from the size at
\* creation; any unvisited element otherwise; when none is left the loop
\* ends and the connections in disconnected are removed.
NextConnection(b, active) ==
    IF Cardinality(active) # b.size
    THEN { [b EXCEPT !.state = "failed", !.current = None] }
    ELSE IF b.pending = {}
    THEN { [b EXCEPT !.state = "done", !.current = None] }
    ELSE { [b EXCEPT !.state = "sending", !.current = c, !.pending = @ \ {c}] :
             c \in b.pending }

broadcast(active) ==
    NextConnection([NoBroadcast EXCEPT !.start = active, !.pending = active,
                                       !.size = Cardinality(active)], active)

\* "await connection.send_json(message)" returns or raises.
send_json(b, states) ==
    IF states[b.current] = "open"
    THEN [b EXCEPT !.delivered = @ \cup {b.current}]
    ELSE [b EXCEPT !.disconnected = @ \cup {b.current}]

\* active_connections after a step of broadcast.
AfterBroadcast(b, active) ==
    IF b.state = "done" THEN active \ b.disconnected ELSE active

\* A running iterator after self.active_connections.add(c) (the new entry
\* lies before or after its position) and after discard(c).
AfterAdd(b, c, seen) ==
    IF b.state = "sending" /\ seen THEN [b EXCEPT !.pending = @ \cup {c}] ELSE b
AfterDiscard(b, c) ==
    IF b.state = "sending" THEN [b EXCEPT !.pending = @ \ {c}] ELSE b

\* ------------------------------------------------- websocket_endpoint
\* manager.connect: accept and add to active_connections.
connect(w, seen, tseen) ==
    /\ websocket_state[w] = "new"
    /\ websocket_state' = [websocket_state EXCEPT ![w] = "open"]
    /\ active_connections' = active_connections \cup {w}
    /\ handler_broadcast' = AfterAdd(handler_broadcast, w, seen)
    /\ tasks' = [t \in DOMAIN tasks |->
                    [tasks[t] EXCEPT !.broadcast = AfterAdd(@, w, tseen[t])]]
    /\ UNCHANGED <<calendar, last_schedule_hash, _schedule_check_task, stopping, calendar_exchange,
                   not_ws>>

\* The peer is gone: every later send_json to it raises.
ConnectionLost(w) ==
    /\ websocket_state[w] = "open"
    /\ websocket_state' = [websocket_state EXCEPT ![w] = "broken"]
    /\ UNCHANGED <<active_connections, handler_broadcast, tasks, calendar,
                   last_schedule_hash, _schedule_check_task, stopping, calendar_exchange,
                   not_ws>>

\* receive_text raises WebSocketDisconnect: finally manager.disconnect.
disconnect(w) ==
    /\ websocket_state[w] \in {"open", "broken"}
    /\ websocket_state' = [websocket_state EXCEPT ![w] = "closed"]
    /\ active_connections' = active_connections \ {w}
    /\ handler_broadcast' = AfterDiscard(handler_broadcast, w)
    /\ tasks' = [t \in DOMAIN tasks |->
                    [tasks[t] EXCEPT !.broadcast = AfterDiscard(@, w)]]
    /\ UNCHANGED <<calendar, last_schedule_hash, _schedule_check_task, stopping, calendar_exchange,
                   not_ws>>

\* ------------------------------------------ /google-calendar/events
\* What the Google API call of a handler does.
CalendarApi == {"ok", "error"}

NoExchange ==
    [op |-> "none", available |-> TRUE, times_valid |-> TRUE, status |-> 0]

\* The exception raised inside the handler's try block: HTTPException(401)
\* when is_available() is false, HTTPException(400) for a time that
\* fromisoformat rejects, HttpError from the Google API.
calendar_try(available, times_valid, found, api) ==
    IF ~available THEN "HTTPException(401)"
    ELSE IF ~times_valid THEN "HTTPException(400)"
    ELSE IF ~found THEN "HttpError(404)"
    ELSE IF api = "error" THEN "HttpError(500)"
    ELSE "none"

\* The except clauses of the handler: update and delete answer 404 for an
\* HttpError with status 404; "except Exception" answers 500 for everything
\* else, the HTTPException raised inside the try block included.
calendar_except(op, exception) ==
    IF op \in {"update", "delete"} /\ exception = "HttpError(404)" THEN 404 ELSE 500

Failed(op, available, times_valid, exception) ==
    /\ calendar_exchange' = [op |-> op, available |-> available, times_valid |-> times_valid,
                             status |-> calendar_except(op, exception)]
    /\ UNCHANGED <<handler_broadcast, active_connections>>

\* "await manager.broadcast(...)" inside try/except Exception, then the
\* response; the response is pending while a send_json is awaited.
Notify(op) ==
    \E b \in broadcast(active_connections) :
       /\ handler_broadcast' = b
       /\ active_connections' = AfterBroadcast(b, active_connections)
       /\ calendar_exchange' = [op |-> op, available |-> TRUE, times_valid |-> TRUE,
                                status |-> IF b.state = "sending" THEN 0 ELSE 200]

\* create_calendar_event: the event is created, then the clients are
\* notified.  One request to these handlers at a time.
create_calendar_event(id, start, available, api) ==
    /\ handler_broadcast.state # "sending"
    /\ calendar[id] = NoEvent
    /\ LET raised == calendar_try(available, TRUE, TRUE, api)
       IN  IF raised = "none"
           THEN calendar' = [calendar EXCEPT ![id] = start] /\ Notify("create")
           ELSE UNCHANGED calendar /\ Failed("create", available, TRUE, raised)
    /\ UNCHANGED <<websocket_state, tasks, last_schedule_hash, _schedule_check_task,
                   stopping, not_ws>>

\* update_calendar_event: start is NoEvent when the request gives no date
\* and start time.  The name timezone is local to the handler and bound only
\* by the import in the branches that parse a date, so without a date the
\* broadcast's argument raises UnboundLocalError, which the inner except
\* swallows.
update_calendar_event(id, start, available, api) ==
    /\ handler_broadcast.state # "sending"
    /\ LET raised == calendar_try(available, TRUE, calendar[id] # NoEvent, api)
       IN  IF raised # "none"
           THEN UNCHANGED calendar /\ Failed("update", available, TRUE, raised)
           ELSE IF start = NoEvent
           THEN /\ calendar_exchange' = [op |-> "update", available |-> TRUE,
                                         times_valid |-> TRUE, status |-> 200]
                /\ UNCHANGED <<calendar, handler_broadcast, active_connections>>
           ELSE calendar' = [calendar EXCEPT ![id] = start] /\ Notify("update")
    /\ UNCHANGED <<websocket_state, tasks, last_schedule_hash, _schedule_check_task,
                   stopping, not_ws>>

delete_calendar_event(id, available, api) ==
    /\ handler_broadcast.state # "sending"
    /\ LET raised == calendar_try(available, TRUE, calendar[id] # NoEvent, api)
       IN  IF raised = "none"
           THEN calendar' = [calendar EXCEPT ![id] = NoEvent] /\ Notify("delete")
           ELSE UNCHANGED calendar /\ Failed("delete", available, TRUE, raised)
    /\ UNCHANGED <<websocket_state, tasks, last_schedule_hash, _schedule_check_task,
                   stopping, not_ws>>

\* get_calendar_events: times_valid is false when time_min or time_max is
\* given and is not an ISO time.
get_calendar_events(available, times_valid, api) ==
    /\ handler_broadcast.state # "sending"
    /\ LET raised == calendar_try(available, times_valid, TRUE, api)
       IN  calendar_exchange' =
              [op |-> "list", available |-> available, times_valid |-> times_valid,
               status |-> IF raised = "none" THEN 200 ELSE calendar_except("list", raised)]
    /\ UNCHANGED <<calendar, handler_broadcast, active_connections, websocket_state, tasks,
                   last_schedule_hash, _schedule_check_task, stopping, not_ws>>

\* The awaited send_json of the handler's broadcast returns or raises; when
\* the broadcast has returned or raised the handler answers 200.
HandlerSendReturns ==
    /\ handler_broadcast.state = "sending"
    /\ \E b \in NextConnection(send_json(handler_broadcast, websocket_state),
                               active_connections) :
          /\ handler_broadcast' = b
          /\ active_connections' = AfterBroadcast(b, active_connections)
          /\ calendar_exchange' =
                [calendar_exchange EXCEPT !.status = IF b.state = "sending" THEN 0 ELSE 200]
    /\ UNCHANGED <<websocket_state, tasks, calendar, last_schedule_hash,
                   _schedule_check_task, stopping, not_ws>>

\* The calendar is edited outside this service: an event is added, moved to
\* another start time, or removed.
CalendarEdited(id, start) ==
    /\ calendar[id] # start
    /\ calendar' = [calendar EXCEPT ![id] = start]
    /\ UNCHANGED <<websocket_state, active_connections, handler_broadcast, tasks,
                   last_schedule_hash, _schedule_check_task, stopping, calendar_exchange,
                   not_ws>>

\* ------------------------------------------------- get_all_schedules
\* The events sorted by start time; [] when the calendar service is not
\* available or raises.
RECURSIVE SortedByStart(_)
SortedByStart(events) ==
    IF events = {} THEN <<>>
    ELSE LET first == CHOOSE e \in events :
                         \A o \in events :
                            \/ e.start < o.start
                            \/ (e.start = o.start /\ ~(o.id = "e1" /\ e.id = "e2"))
         IN  <<first>> \o SortedByStart(events \ {first})

get_all_schedules(cal, available) ==
    IF ~available THEN <<>>
    ELSE SortedByStart({ [id |-> i, start |-> cal[i]] : i \in { j \in EventIds : cal[j] # NoEvent } })

\* sorted([s.get('id', '') for s in schedules])
RECURSIVE SortedIds(_)
SortedIds(ids) ==
    IF ids = {} THEN <<>>
    ELSE LET first == IF "e1" \in ids THEN "e1" ELSE "e2"
         IN  <<first>> \o SortedIds(ids \ {first})

\* ConnectionManager.get_schedule_hash: "" for no schedules, otherwise
\* str(hash(tuple(schedule_ids))); the tuple stands for its hash and the
\* empty tuple for "".
get_schedule_hash(schedules) ==
    IF schedules = <<>> THEN <<>>
    ELSE SortedIds({ schedules[i].id : i \in 1..Len(schedules) })

\* ----------------------------------------------- check_schedule_changes
NewTask ==
    [pc |-> "sleep30", must_cancel |-> FALSE, polled |-> FALSE, schedules |-> <<>>,
     broadcast |-> NoBroadcast]

\* The locals of a broadcast that returned or raised are gone.
Returned(b) ==
    IF b.state = "sending" THEN b ELSE NoBroadcast

\* asyncio.sleep(30) returns: the schedules are read and hashed, and when
\* the hash differs from last_schedule_hash it is stored and broadcast is
\* awaited.
CheckSchedules(t, available) ==
    /\ tasks[t].pc = "sleep30"
    /\ ~tasks[t].must_cancel
    /\ LET schedules == get_all_schedules(calendar, available)
           current_hash == get_schedule_hash(schedules)
       IN  IF current_hash # last_schedule_hash
           THEN /\ last_schedule_hash' = current_hash
                /\ \E b \in broadcast(active_connections) :
                      /\ tasks' = [tasks EXCEPT ![t] =
                            [@ EXCEPT !.polled = TRUE, !.schedules = schedules,
                                      !.broadcast = Returned(b),
                                      !.pc = IF b.state = "sending" THEN "sending"
                                             ELSE "sleep30"]]
                      /\ active_connections' = AfterBroadcast(b, active_connections)
           ELSE /\ tasks' = [tasks EXCEPT ![t] =
                       [@ EXCEPT !.polled = TRUE, !.schedules = schedules]]
                /\ UNCHANGED <<last_schedule_hash, active_connections>>
    /\ UNCHANGED <<websocket_state, handler_broadcast, calendar, _schedule_check_task,
                   stopping, calendar_exchange,
                   not_ws>>

\* The awaited send_json of the task's broadcast returns or raises; a
\* RuntimeError of the loop is caught by "except Exception" and the task
\* sleeps 60 seconds.
TaskSendReturns(t) ==
    /\ tasks[t].pc = "sending"
    /\ ~tasks[t].must_cancel
    /\ \E b \in NextConnection(send_json(tasks[t].broadcast, websocket_state),
                               active_connections) :
          /\ tasks' = [tasks EXCEPT ![t] =
                [@ EXCEPT !.broadcast = Returned(b),
                          !.pc = CASE b.state = "sending" -> "sending"
                                   [] b.state = "failed" -> "sleep60"
                                   [] OTHER -> "sleep30"]]
          /\ active_connections' = AfterBroadcast(b, active_connections)
    /\ UNCHANGED <<websocket_state, handler_broadcast, calendar, last_schedule_hash,
                   _schedule_check_task, stopping, calendar_exchange,
                   not_ws>>

\* asyncio.sleep(60) of the except branch returns.
ErrorSleepReturns(t) ==
    /\ tasks[t].pc = "sleep60"
    /\ ~tasks[t].must_cancel
    /\ tasks' = [tasks EXCEPT ![t] = [@ EXCEPT !.pc = "sleep30"]]
    /\ UNCHANGED <<websocket_state, active_connections, handler_broadcast, calendar,
                   last_schedule_hash, _schedule_check_task, stopping, calendar_exchange,
                   not_ws>>

\* CancelledError is thrown into the task at its await; it is not an
\* Exception, so no except clause of the loop catches it.  The task is done
\* and its frame is released.
Cancelled(t) ==
    /\ tasks[t].pc # "done"
    /\ tasks[t].must_cancel
    /\ tasks' = [tasks EXCEPT ![t] = [NewTask EXCEPT !.pc = "done", !.must_cancel = TRUE]]
    /\ UNCHANGED <<websocket_state, active_connections, handler_broadcast, calendar,
                   last_schedule_hash, _schedule_check_task, stopping, calendar_exchange,
                   not_ws>>

\* ------------------------------------------- start_schedule_check_task
NoTask == 0

create_unguarded(task, all) ==
    TRUE
create_guard(task, all) ==
    task = NoTask \/ all[task].pc = "done"

start_schedule_check_task ==
    /\ Len(tasks) < MaxTasks
    /\ IF create_guard(_schedule_check_task, tasks)
       THEN /\ tasks' = Append(tasks, NewTask)
            /\ _schedule_check_task' = Len(tasks) + 1
       ELSE UNCHANGED <<tasks, _schedule_check_task>>
    /\ UNCHANGED <<websocket_state, active_connections, handler_broadcast, calendar,
                   last_schedule_hash, stopping, calendar_exchange,
                   not_ws>>

\* -------------------------------------------- stop_schedule_check_task
\* cancel() and the start of "await _schedule_check_task".
stop_schedule_check_task(k) ==
    /\ stopping[k] = NoTask
    /\ _schedule_check_task # NoTask
    /\ tasks[_schedule_check_task].pc # "done"
    /\ tasks' = [tasks EXCEPT ![_schedule_check_task] = [@ EXCEPT !.must_cancel = TRUE]]
    /\ stopping' = [stopping EXCEPT ![k] = _schedule_check_task]
    /\ UNCHANGED <<websocket_state, active_connections, handler_broadcast, calendar,
                   last_schedule_hash, _schedule_check_task, calendar_exchange,
                   not_ws>>

\* The awaited task is done: CancelledError is swallowed and stop returns.
StopReturns(k) ==
    /\ stopping[k] # NoTask
    /\ tasks[stopping[k]].pc = "done"
    /\ stopping' = [stopping EXCEPT ![k] = NoTask]
    /\ UNCHANGED <<websocket_state, active_connections, handler_broadcast, calendar,
                   last_schedule_hash, _schedule_check_task, tasks, calendar_exchange,
                   not_ws>>

\* ------------------------------------------------------ initial states
WInit ==
    /\ websocket_state = [w \in WebSockets |-> "new"]
    /\ active_connections = {}
    /\ handler_broadcast = NoBroadcast
    /\ calendar = [i \in EventIds |-> NoEvent]
    /\ last_schedule_hash = <<>>
    /\ tasks = <<>>
    /\ _schedule_check_task = NoTask
    /\ stopping = [k \in Callers |-> NoTask]
    /\ calendar_exchange = NoExchange

\* Two clients are connected.
WConnected ==
    /\ websocket_state = [w \in WebSockets |-> IF w = "w3" THEN "new" ELSE "open"]
    /\ active_connections = {"w1", "w2"}
    /\ handler_broadcast = NoBroadcast
    /\ calendar = [i \in EventIds |-> NoEvent]
    /\ last_schedule_hash = <<>>
    /\ tasks = <<>>
    /\ _schedule_check_task = NoTask
    /\ stopping = [k \in Callers |-> NoTask]
    /\ calendar_exchange = NoExchange

BroadcastNext ==
    \/ \E w \in WebSockets, seen \in BOOLEAN, tseen \in [DOMAIN tasks -> BOOLEAN] :
          connect(w, seen, tseen)
    \/ \E w \in WebSockets : ConnectionLost(w)
    \/ \E w \in WebSockets : disconnect(w)
    \/ \E id \in EventIds, start \in StartTimes, available \in BOOLEAN, api \in CalendarApi :
          create_calendar_event(id, start, available, api)
    \/ HandlerSendReturns

CalendarNext ==
    \/ \E w \in WebSockets, seen \in BOOLEAN : connect(w, seen, <<>>)
    \/ \E id \in EventIds, start \in StartTimes, available \in BOOLEAN, api \in CalendarApi :
          create_calendar_event(id, start, available, api)
    \/ HandlerSendReturns
    \/ \E id \in EventIds, start \in StartTimes \cup {NoEvent}, available \in BOOLEAN,
          api \in CalendarApi : update_calendar_event(id, start, available, api)
    \/ \E id \in EventIds, available \in BOOLEAN, api \in CalendarApi :
          delete_calendar_event(id, available, api)
    \/ \E available \in BOOLEAN, times_valid \in BOOLEAN, api \in CalendarApi :
          get_calendar_events(available, times_valid, api)

PollNext ==
    \/ start_schedule_check_task
    \/ \E k \in Callers : stop_schedule_check_task(k)
    \/ \E k \in Callers : StopReturns(k)
    \/ \E t \in DOMAIN tasks, available \in BOOLEAN : CheckSchedules(t, available)
    \/ \E t \in DOMAIN tasks : TaskSendReturns(t)
    \/ \E t \in DOMAIN tasks : ErrorSleepReturns(t)
    \/ \E t \in DOMAIN tasks : Cancelled(t)
    \/ \E id \in EventIds, start \in StartTimes \cup {NoEvent} : CalendarEdited(id, start)
    \/ \E w \in WebSockets : disconnect(w)

\* ============================================================ generators
\* The OpenAI-backed generator services and the routers in front of them.
\* A text is represented by its number of characters (len); NoText is an
\* Optional[str] that is None.
MaxPostLength == 280
NoText == -1

\* "if text:" is false for None and for "".
Truthy(text) ==
    text > 0

\* What chat.completions.create does: it raises (error, timeout), or it
\* returns a message whose content is None, plain text, JSON without the
\* expected keys, or the JSON asked for.  content counts the characters of
\* the message, padding those of them that strip() removes.
OpenAIReplies ==
    { [kind |-> k, content |-> 50, padding |-> 0] :
        k \in {"api_error", "no_content", "json_missing_keys", "json"} }
    \cup { [kind |-> "text", content |-> n, padding |-> p] :
             n \in {2, 282}, p \in {0, 2} }

Result(source, text) ==
    [raised |-> FALSE, source |-> source, text |-> text, character_count |-> text]
Raises ==
    [raised |-> TRUE, source |-> "openai", text |-> 0, character_count |-> 0]

\* generated_text[:280]
untruncated(text) ==
    text
truncate(text) ==
    IF text > MaxPostLength THEN MaxPostLength ELSE text

\* ------------------------------------------------------ AutoPostService
\* response.choices[0].message.content.strip() raises AttributeError for a
\* content of None; every other content is the post text.
AutoPost_generate_with_openai(reply) ==
    IF reply.kind \in {"api_error", "no_content"} THEN Raises
    ELSE Result("openai", truncate(reply.content - reply.padding))

\* The lengths of the request's strings; cta is "none" for the value that
\* means no call to action, "custom" for free input, "preset" for any other.
AutoPostRequests ==
    [ post_type : {5, 300}, poster_other : BOOLEAN, poster_type : {6},
      combined_emoji : {6}, purpose_text : {16}, tone_suffix : {14},
      required_info : {NoText, 0, 300},
      cta : {"none", "custom", "preset"}, cta_custom : {NoText, 300} ]

AutoPost_generate_rule_based(request) ==
    LET poster_prefix == IF request.poster_other THEN 4 ELSE request.poster_type + 7
        info == IF Truthy(request.required_info) THEN 1 + request.required_info ELSE 0
        cta_text == IF request.cta = "custom" /\ Truthy(request.cta_custom)
                    THEN 1 + request.cta_custom
                    ELSE IF request.cta = "custom" THEN 1 + 4
                    ELSE IF request.cta = "preset" THEN 1 + 5
                    ELSE 0
        opening == poster_prefix + 3 + request.post_type + request.combined_emoji
        body == opening + 1 + request.purpose_text + request.tone_suffix + info + cta_text
    IN  Result("rule_based", truncate(body))

\* generate_post, generate_plan, generate_metadata, generate_suggestions:
\*   if self.client: try: return self._generate_with_openai(...)
\*                   except Exception: log
\*   return self._generate_rule_based(...)
fall_through(client, attempt, rule_based) ==
    IF client THEN attempt ELSE rule_based
fall_back(client, attempt, rule_based) ==
    IF client /\ ~attempt.raised THEN attempt ELSE rule_based

AutoPostService_generate_post(client, reply, request) ==
    fall_back(client, AutoPost_generate_with_openai(reply),
              AutoPost_generate_rule_based(request))

\* --------------------------------------------------- the other services
\* LivePlanService: content None, text that is not JSON (JSONDecodeError is
\* re-raised as ValueError) and JSON without "flow" or "preparations"
\* (KeyError) all raise.
LivePlan_generate_with_openai(reply) ==
    IF reply.kind = "json" THEN Result("openai", 0) ELSE Raises

\* MetadataService and ImprovementService read the parsed JSON with
\* .get(key, default): missing keys give a padded or empty result.
Metadata_generate_with_openai(reply) ==
    IF reply.kind \in {"json", "json_missing_keys"} THEN Result("openai", 0) ELSE Raises

Improvement_generate_with_openai(reply) ==
    IF reply.kind \in {"json", "json_missing_keys"} THEN Result("openai", 0) ELSE Raises

LivePlanService_generate_plan(client, reply) ==
    fall_back(client, LivePlan_generate_with_openai(reply), Result("rule_based", 0))

MetadataService_generate_metadata(client, reply) ==
    fall_back(client, Metadata_generate_with_openai(reply), Result("rule_based", 0))

ImprovementService_generate_suggestions(client, reply) ==
    fall_back(client, Improvement_generate_with_openai(reply), Result("rule_based", 0))

NoReply == [kind |-> "none", content |-> 0, padding |-> 0]
NoResult == [raised |-> FALSE, source |-> "none", text |-> 0, character_count |-> 0]

\* Only the last request to a generator and its response are recorded.
NoAutoPost ==
    [request |-> CHOOSE r \in AutoPostRequests : TRUE, client |-> FALSE,
     reply |-> NoReply, status |-> 0, result |-> NoResult]
NoMetadata ==
    [request |-> [script_summary |-> "text", video_format_valid |-> TRUE,
                  purposes_valid |-> TRUE],
     client |-> FALSE, reply |-> NoReply, status |-> 0, result |-> NoResult]
NoService ==
    [service |-> "none", client |-> FALSE, reply |-> NoReply, result |-> NoResult]

\* ------------------------------------------------ POST /auto-post/generate
\* The router returns the service's result; an exception becomes a 500.
generate_post(request, client, reply) ==
    /\ LET result == AutoPostService_generate_post(client, reply, request)
       IN  auto_post_exchange' =
              [request |-> request, client |-> client, reply |-> reply,
               status |-> IF result.raised THEN 500 ELSE 200, result |-> result]
    /\ metadata_exchange' = NoMetadata
    /\ service_exchange' = NoService
    /\ UNCHANGED not_generators

\* ------------------------------------- generate_plan, generate_suggestions
\* The services as their routers (live_plan.py, analytics.py) call them.
generate_plan(client, reply) ==
    /\ service_exchange' =
          [service |-> "generate_plan", client |-> client, reply |-> reply,
           result |-> LivePlanService_generate_plan(client, reply)]
    /\ auto_post_exchange' = NoAutoPost
    /\ metadata_exchange' = NoMetadata
    /\ UNCHANGED not_generators

generate_suggestions(client, reply) ==
    /\ service_exchange' =
          [service |-> "generate_suggestions", client |-> client, reply |-> reply,
           result |-> ImprovementService_generate_suggestions(client, reply)]
    /\ auto_post_exchange' = NoAutoPost
    /\ metadata_exchange' = NoMetadata
    /\ UNCHANGED not_generators

\* ------------------------------------------------ POST /metadata/generate
\* The request as the schema admits it: script_summary is blank (empty or
\* white space) or not, video_format and every purpose is one of the valid
\* values or not.
MetadataRequests ==
    [ script_summary : {"blank", "text"}, video_format_valid : BOOLEAN,
      purposes_valid : BOOLEAN ]

\* The checks at the head of the try block: the exception they raise.
metadata_validation(request) ==
    IF request.script_summary = "blank" THEN "HTTPException(400)"
    ELSE IF ~request.video_format_valid THEN "HTTPException(400)"
    ELSE IF ~request.purposes_valid THEN "HTTPException(400)"
    ELSE "none"

\* "except ValueError" answers 400 and "except Exception" answers 500; the
\* HTTPException raised inside the try block is an Exception and not a
\* ValueError.
metadata_except(exception) ==
    IF exception = "ValueError" THEN 400 ELSE 500

generate_metadata(request, client, reply) ==
    /\ LET invalid == metadata_validation(request)
           result == MetadataService_generate_metadata(client, reply)
           raised == IF invalid # "none" THEN invalid
                     ELSE IF result.raised THEN "Exception" ELSE "none"
       IN  metadata_exchange' =
              [request |-> request, client |-> client, reply |-> reply,
               status |-> IF raised = "none" THEN 201 ELSE metadata_except(raised),
               result |-> IF invalid = "none" THEN result ELSE NoResult]
    /\ auto_post_exchange' = NoAutoPost
    /\ service_exchange' = NoService
    /\ UNCHANGED not_generators

GInit ==
    /\ auto_post_exchange = NoAutoPost
    /\ metadata_exchange = NoMetadata
    /\ service_exchange = NoService

\* Without a client no request is sent to OpenAI.
Replies(client) ==
    IF client THEN OpenAIReplies ELSE {NoReply}

GNext ==
    \/ \E request \in AutoPostRequests, client \in BOOLEAN :
          \E reply \in Replies(client) : generate_post(request, client, reply)
    \/ \E client \in BOOLEAN : \E reply \in Replies(client) : generate_plan(client, reply)
    \/ \E client \in BOOLEAN : \E reply \in Replies(client) :
          generate_suggestions(client, reply)
    \/ \E request \in MetadataRequests, client \in BOOLEAN :
          \E reply \in Replies(client) : generate_metadata(request, client, reply)

\* ========================================================= specifications
\* The services after start-up.  For the analytics endpoint the account on X
\* may have posted before; the other routers never read it.
XIdle == XInit /\ x_timeline = <<>>
InitX == XInit /\ SInit /\ WInit /\ GInit
InitStore == XIdle /\ SInit /\ WInit /\ GInit
InitBroadcast == XIdle /\ SInit /\ WInit /\ GInit
InitPoll == XIdle /\ SInit /\ WConnected /\ GInit
InitGenerators == XIdle /\ SInit /\ WInit /\ GInit
InitCalendar == XIdle /\ SInit /\ WInit /\ GInit

\* The analytics endpoint alone, and the storage routers alone.
SpecX == InitX /\ [][XNext]_vars
SpecStore == InitStore /\ [][SNext]_vars
SpecBroadcast == InitBroadcast /\ [][BroadcastNext]_vars
SpecPoll == InitPoll /\ [][PollNext]_vars
SpecGenerators == InitGenerators /\ [][GNext]_vars
SpecCalendar == InitCalendar /\ [][CalendarNext]_vars
InitStoredImage == XIdle /\ SStoredImage /\ WInit /\ GInit
SpecStoredImage == InitStoredImage /\ [][ScheduledPostNext]_vars

\* ================================================================ claims
\* ------------------------------------------------------------ X analytics
\* The request of the last response: its period start, the account as it
\* was, the page of tweets that was fetched and every tweet of the period.
CallStart == x_call.now - PeriodDelta(x_call.period)
CallAccount == SubSeq(x_timeline, 1, x_call.account)
CallFetched == FetchTweets(CallAccount, x_call.period, x_call.now)
CallAllPages ==
    SelectSeq(CallAccount, LAMBDA tw :
        /\ tw.created_at >= StrftimeSeconds(CallStart)
        /\ tw.created_at < StrftimeSeconds(x_call.now))
Answered == x_call.period # None /\ x_response.status = 200

\* The N buckets of width w of the claims (w in ticks).
ClaimN(period) ==
    CASE period = "2hours" -> 12 [] period = "1day" -> 24
      [] period = "1week" -> 7 [] period = "1month" -> 30
ClaimW(period) ==
    CASE period = "2hours" -> 10 * Minute [] period = "1day" -> Hour
      [] period = "1week" -> Day [] period = "1month" -> Day

InWindow(tw) ==
    /\ CallStart <= tw.created_at
    /\ tw.created_at < CallStart + ClaimN(x_call.period) * ClaimW(x_call.period)
FloorIndex(tw) == (tw.created_at - CallStart) \div ClaimW(x_call.period)
Engagement(tw) ==
    tw.public_metrics.like_count + tw.public_metrics.retweet_count
    + tw.public_metrics.reply_count
IsRetweet(tw) == \E i \in DOMAIN tw.referenced_tweets : tw.referenced_tweets[i] = "retweeted"

\* Sum of F over the tweets of a sequence that are in the window with floor index i.
WindowSum(tweets, i, F(_)) ==
    SeqSum([k \in 1..Len(tweets) |->
        IF InWindow(tweets[k]) /\ FloorIndex(tweets[k]) = i THEN F(tweets[k]) ELSE 0])
UsedIndexes(tweets) ==
    {FloorIndex(tweets[k]) : k \in {j \in 1..Len(tweets) : InWindow(tweets[j])}}

\* C1: retweets_count is the sum of retweet_count over exactly the fetched
\* tweets created at or after the period start that are not retweets of
\* another user's tweet.
C1_RetweetsCount ==
    Answered =>
        LET counted == SelectSeq(CallFetched,
                           LAMBDA tw : tw.created_at >= CallStart /\ ~IsRetweet(tw))
        IN  x_response.data.retweets_count =
                SeqSum([k \in 1..Len(counted) |-> counted[k].public_metrics.retweet_count])

\* C1 witness: a response over a page that holds a counted tweet and a tweet
\* with retweets that is not counted (older than the start, or a retweet).
C1_Witness ==
    /\ Answered
    /\ x_response.data.retweets_count > 0
    /\ \E k \in 1..Len(CallFetched) :
          /\ CallFetched[k].public_metrics.retweet_count > 0
          /\ (CallFetched[k].created_at < CallStart \/ IsRetweet(CallFetched[k]))

\* C2: N fixed-width buckets from the period start; every fetched tweet in
\* the window adds its engagement and impressions to the bucket with index
\* floor((t - start) / w) and to no other, and item i is labelled with the
\* time start + i*w.
C2_TrendBuckets ==
    Answered =>
        LET trend == x_response.data.engagement_trend
            n == ClaimN(x_call.period)
            w == ClaimW(x_call.period)
            tweets == CallFetched
            used == UsedIndexes(tweets)
            alleng == SeqSum([k \in 1..Len(tweets) |-> Engagement(tweets[k])])
            allimp == SeqSum([k \in 1..Len(tweets) |->
                                 tweets[k].public_metrics.impression_count])
            inside == \A k \in 1..Len(tweets) : InWindow(tweets[k])
            eng(i) == IF i \in used THEN WindowSum(tweets, i, Engagement) ELSE 0
            imp(i) == IF i \in used
                      THEN WindowSum(tweets, i, LAMBDA tw : tw.public_metrics.impression_count)
                      ELSE 0
        IN  /\ Len(trend) = n
            /\ \A i \in 0..(n - 1) :
                  /\ trend[i + 1].time = Strftime(LabelFormat(x_call.period), CallStart + i * w)
                  /\ trend[i + 1].engagement >= eng(i)
                  /\ trend[i + 1].impressions >= imp(i)
                  /\ inside => /\ trend[i + 1].engagement = eng(i)
                               /\ trend[i + 1].impressions = imp(i)
            /\ SeqSum([i \in 1..n |-> trend[i].engagement]) <= alleng
            /\ SeqSum([i \in 1..n |-> trend[i].impressions]) <= allimp

\* C2 witness: a response whose page holds tweets of the window in a bucket
\* after the first one, and that bucket is not empty.
C2_Witness ==
    /\ Answered
    /\ \E k \in 1..Len(CallFetched) :
          /\ InWindow(CallFetched[k])
          /\ FloorIndex(CallFetched[k]) >= 1
          /\ x_response.data.engagement_trend[FloorIndex(CallFetched[k]) + 1].engagement > 0

\* C3: a fetched tweet created outside the bucketed window adds to no bucket
\* of the engagement trend and to no bucket of a hashtag timeline: every
\* bucket holds the tweets with 0 <= (t - start) < N*w of its index only.
TagCount(tw, tag) ==
    Cardinality({j \in 1..Len(tw.hashtags) :
        _normalize_hashtag(tw.hashtags[j]) = _normalize_hashtag(tag)})

C3_OutsideWindowIgnored ==
    Answered =>
        LET trend == x_response.data.engagement_trend
            tags == x_response.data.hashtag_analysis
            tweets == CallFetched
            used == UsedIndexes(tweets)
        IN  \A i \in 0..(ClaimN(x_call.period) - 1) :
               /\ trend[i + 1].engagement =
                      IF i \in used THEN WindowSum(tweets, i, Engagement) ELSE 0
               /\ trend[i + 1].impressions =
                      IF i \in used
                      THEN WindowSum(tweets, i, LAMBDA tw : tw.public_metrics.impression_count)
                      ELSE 0
               /\ \A h \in 1..Len(tags) :
                      tags[h].data[i + 1].likes =
                          IF i \in used
                          THEN WindowSum(tweets, i, LAMBDA tw :
                                   tw.public_metrics.like_count * TagCount(tw, tags[h].tag))
                          ELSE 0

\* C4: the totals, the trend and the hashtag statistics cover the tweets of
\* every result page of the period, not only the first max_results.
C4_AllPagesAggregated ==
    Answered =>
        LET all == CallAllPages
            d == x_response.data
            counted == SelectSeq(all, LAMBDA tw : tw.created_at >= CallStart /\ ~IsRetweet(tw))
            windowed == SelectSeq(all, InWindow)
            tagged == SelectSeq(all, LAMBDA tw : Len(tw.hashtags) > 0)
        IN  /\ d.likes_count = SeqSum([k \in 1..Len(all) |-> all[k].public_metrics.like_count])
            /\ d.replies_count = SeqSum([k \in 1..Len(all) |-> all[k].public_metrics.reply_count])
            /\ d.impressions_count =
                   SeqSum([k \in 1..Len(all) |-> all[k].public_metrics.impression_count])
            /\ d.retweets_count =
                   SeqSum([k \in 1..Len(counted) |-> counted[k].public_metrics.retweet_count])
            /\ SeqSum([i \in 1..Len(d.engagement_trend) |-> d.engagement_trend[i].engagement])
                   >= SeqSum([k \in 1..Len(windowed) |-> Engagement(windowed[k])])
            /\ SeqSum([h \in 1..Len(d.hashtag_analysis) |-> d.hashtag_analysis[h].likes])
                   = SeqSum([k \in 1..Len(tagged) |->
                         tagged[k].public_metrics.like_count * Len(tagged[k].hashtags)])

\* C10: a rate limit reported while the tweets are fetched is answered with
\* status 429 and a retry_after_seconds of at least 60, with or without a
\* response object or x-rate-limit-reset header on the error.
C10_RateLimitAnswered ==
    (x_call.period # None /\ x_call.api.tweets = "rate_limit") =>
        /\ x_response.status = 429
        /\ x_response.retry_after_seconds >= MinRetryAfter

\* ---------------------------------------------------- persisted entities
\* A row of the table stays as it is or is deleted.
Kept(table, table2) == \A r \in table : r \in table2 \/ ~Has(table2, r.id)

\* The reads answer with the stored rows.
ReadsStored ==
    /\ store_response'.op = "list_files" => store_response'.rows = storage_files
    /\ store_response'.op = "list_scheduled_posts" => store_response'.rows = scheduled_posts
    /\ store_response'.op = "get_shorts_scripts" => store_response'.rows = shorts_scripts
    /\ store_response'.op = "get_live_plans" => store_response'.rows = live_plans
    /\ (store_response'.op = "get_live_plan" /\ store_response'.status = 200) =>
           /\ store_response'.rows \subseteq live_plans
           /\ \A r \in store_response'.rows : r.id = store_response'.id

\* A successful PUT /storage/scheduled-posts/{id}: the row of that id is
\* replaced by the row of the response, every other row is kept.
ScheduledPostUpdated ==
    /\ store_response'.op = "update_scheduled_post"
    /\ store_response'.status = 200
    /\ \E old \in scheduled_posts :
          /\ old.id = store_response'.id
          /\ \A r \in store_response'.rows : r.id = old.id
          /\ scheduled_posts' = (scheduled_posts \ {old}) \cup store_response'.rows

\* C5 (as stated): no request changes the stored fields of an existing
\* script, live plan, report-file record or scheduled post, and every list
\* or get returns the stored field values.
C5_ReadBackUnmodified ==
    [][/\ Kept(storage_files, storage_files')
       /\ Kept(scheduled_posts, scheduled_posts')
       /\ Kept(shorts_scripts, shorts_scripts')
       /\ Kept(live_plans, live_plans')
       /\ ReadsStored]_vars

\* C5 (amended): scripts, live plans and report-file records are never
\* changed after their creation; a scheduled post changes only by a
\* successful update_scheduled_post of its id, which replaces that row and
\* no other; every list or get returns the stored field values.
C5_UnmodifiedExceptUpdate ==
    [][/\ Kept(storage_files, storage_files')
       /\ Kept(shorts_scripts, shorts_scripts')
       /\ Kept(live_plans, live_plans')
       /\ Kept(scheduled_posts, scheduled_posts') \/ ScheduledPostUpdated
       /\ ReadsStored]_vars

\* C5 witness: a list of the scheduled posts that returns a row changed by
\* an update next to a row that is as it was created.
C5_Witness ==
    /\ store_response.op = "list_scheduled_posts"
    /\ \E r \in store_response.rows : r.status # "pending"
    /\ \E r \in store_response.rows : r.status = "pending"

UniqueIds(table) == \A r1 \in table, r2 \in table : r1.id = r2.id => r1 = r2

\* A successful create of the operation added one row, of the returned id.
CreatedOne(op, table, table2) ==
    (store_response'.op = op /\ store_response'.status = 201) =>
        \E r \in table2 :
            /\ r.id = store_response'.id
            /\ ~Has(table, r.id)
            /\ table2 = table \cup {r}

\* C6: no two rows of a table have the same id, and every successful create
\* adds exactly one row, whose id is the id of the response.
C6_PrimaryKeysUnique ==
    [][/\ UniqueIds(storage_files') /\ UniqueIds(scheduled_posts')
       /\ UniqueIds(shorts_scripts') /\ UniqueIds(live_plans')
       /\ CreatedOne("save_report", storage_files, storage_files')
       /\ CreatedOne("save_scheduled_post", scheduled_posts, scheduled_posts')
       /\ CreatedOne("generate_shorts_script", shorts_scripts, shorts_scripts')
       /\ CreatedOne("generate_live_plan", live_plans, live_plans')]_vars

\* C6 witness: a successful create into a table that already had a row.
C6_Witness ==
    /\ store_response.status = 201
    /\ \/ store_response.op = "save_report" /\ Cardinality(storage_files) >= 2
       \/ store_response.op = "save_scheduled_post" /\ Cardinality(scheduled_posts) >= 2
       \/ store_response.op = "generate_shorts_script" /\ Cardinality(shorts_scripts) >= 2
       \/ store_response.op = "generate_live_plan" /\ Cardinality(live_plans) >= 2

\* ---------------------------------------------------------- polling task
Alive(all) ==
    { t \in DOMAIN all : all[t].pc # "done" }

\* C7: whatever the sequence and interleaving of start and stop calls, at
\* most one check_schedule_changes task is alive; start creates a task only
\* when there is none or the previous one is done; and when stop returns,
\* the task it cancelled is done.
C7_SinglePollingTask ==
    [][ /\ Cardinality(Alive(tasks')) <= 1
        /\ Len(tasks') > Len(tasks) =>
              \/ _schedule_check_task = NoTask
              \/ tasks[_schedule_check_task].pc = "done"
        /\ \A k \in Callers :
              (stopping[k] # NoTask /\ stopping'[k] = NoTask) =>
                  tasks'[stopping[k]].pc = "done" ]_vars

\* A task was stopped, stop returned to its caller, and start created the
\* next task, which is polling.
C7_Witness ==
    /\ Len(tasks) = 2
    /\ tasks[1].pc = "done"
    /\ tasks[2].pc # "done"
    /\ tasks[2].polled
    /\ _schedule_check_task = 2
    /\ \A k \in Callers : stopping[k] = NoTask

\* ------------------------------------------------------------- broadcast
\* C8: a broadcast does not fail, delivers the message to every client that
\* was connected when it started and stays connected, and has removed the
\* clients whose send failed when it ends, also when clients connect,
\* disconnect or fail while it is in progress.
C8_BroadcastReachesAll ==
    /\ handler_broadcast.state # "failed"
    /\ handler_broadcast.state = "done" =>
          /\ \A w \in handler_broadcast.start :
                websocket_state[w] = "open" => w \in handler_broadcast.delivered
          /\ handler_broadcast.disconnected \cap active_connections = {}

\* C9: when the schedules read by a poll differ from those read by the
\* previous poll, in the set of events or in the time of an event, the poll
\* broadcasts a schedule_update to the connected clients.
C9_ChangeNotified ==
    [][ \A t \in DOMAIN tasks :
           ( /\ tasks[t].polled
             /\ tasks'[t].polled
             /\ tasks'[t].schedules # tasks[t].schedules
             /\ active_connections # {} )
           => tasks'[t].pc = "sending" ]_vars

\* ------------------------------------------------------------ generators
\* The result of a generator when OpenAI is of no use: no client, a call
\* that raises, a message without content, or (unparsed) a message that is
\* not the JSON the generator parses.
FellBack(exchange, unparsed) ==
    /\ ~exchange.result.raised
    /\ (~exchange.client \/ exchange.reply.kind \in {"api_error", "no_content"} \cup unparsed)
          => exchange.result.source = "rule_based"

\* C11: generate_post, generate_plan, generate_metadata and
\* generate_suggestions return the rule-based result whenever the OpenAI
\* client is absent, the call raises or its response cannot be parsed, and
\* never raise.
C11_FallsBackToRules ==
    /\ auto_post_exchange.status # 0 => FellBack(auto_post_exchange, {})
    /\ metadata_exchange.result.source # "none" => FellBack(metadata_exchange, {"text"})
    /\ service_exchange.service # "none" => FellBack(service_exchange, {"text"})

\* generate_plan with a client whose reply is not JSON returned the
\* rule-based plan.
C11_Witness ==
    /\ service_exchange.service = "generate_plan"
    /\ service_exchange.client
    /\ service_exchange.reply.kind = "text"
    /\ service_exchange.result.source = "rule_based"

\* C12: every response of POST /auto-post/generate carries a text of at
\* most 280 characters and a character_count equal to the length of that
\* text, on the OpenAI path and on the rule-based path.
C12_PostWithinLimit ==
    auto_post_exchange.status # 0 =>
        /\ auto_post_exchange.status = 200
        /\ auto_post_exchange.result.text <= 280
        /\ auto_post_exchange.result.character_count = auto_post_exchange.result.text

\* A rule-based post whose required_info alone has 300 characters was cut
\* to 280.
C12_Witness ==
    /\ auto_post_exchange.status = 200
    /\ auto_post_exchange.result.source = "rule_based"
    /\ auto_post_exchange.request.required_info = 300
    /\ auto_post_exchange.result.text = 280

\* C14: a blank script_summary, a video_format outside the allowed values
\* or a purpose outside the allowed values makes POST /metadata/generate
\* respond 400, and no metadata is generated.
C14_InvalidMetadataRequest ==
    ( /\ metadata_exchange.status # 0
      /\ \/ metadata_exchange.request.script_summary = "blank"
         \/ ~metadata_exchange.request.video_format_valid
         \/ ~metadata_exchange.request.purposes_valid )
    => /\ metadata_exchange.status = 400
       /\ metadata_exchange.result.source = "none"

\* -------------------------------------------------------------- calendar
\* C13: the calendar event endpoints respond 401 when Google Calendar is
\* not connected, and GET /google-calendar/events responds 400 when
\* time_min or time_max is not a valid ISO time.
C13_CalendarStatus ==
    calendar_exchange.op # "none" =>
        /\ ~calendar_exchange.available => calendar_exchange.status = 401
        /\ ( /\ calendar_exchange.op = "list"
             /\ calendar_exchange.available
             /\ ~calendar_exchange.times_valid ) => calendar_exchange.status = 400


\* --------------------------------------------------------------- storage
\* C15: a POST /storage/scheduled-posts whose image_base64 is a valid image
\* (with a commit that succeeds) responds 201 and records a pending post
\* whose image_path names a file in storage, and GET
\* /storage/scheduled-posts/{id}/image of a post whose image is stored
\* returns it.
C15_ImageSaved ==
    [][ /\ \A c \in Contents, d \in Datetimes, i \in Ids :
              ( /\ RecordCount < MaxRecords
                /\ primary_key(scheduled_posts, i)
                /\ save_scheduled_post(c, d, "img", i, TRUE) )
              => /\ store_response'.status = 201
                 /\ \E p \in scheduled_posts' :
                       /\ p.id = i
                       /\ p.status = "pending"
                       /\ p.image_path \in storage_dir'
        /\ \A i \in Ids :
              ( /\ get_scheduled_post_image(i)
                /\ \E p \in scheduled_posts : p.id = i /\ p.image_path \in storage_dir )
              => store_response'.status = 200 ]_vars

\* C16: whenever no storage request is in progress, every StorageFile
\* record's file_path names a file in storage and every report file in
\* storage has a StorageFile record.
C16_FilesMatchRecords ==
    /\ \A r \in storage_files : r.file_path \in storage_dir
    /\ \A f \in storage_dir :
          f.report_type \in ReportTypes => \E r \in storage_files : r.file_path = f

====
